---- MODULE Spec2Model ----
(***************************************************************************)
(* Model of the Anymail send pipeline:                                     *)
(*   anymail/backends/base.py      AnymailBaseBackend, AnymailRequestsBackend*)
(*   anymail/backends/mandrill.py  MandrillBackend                         *)
(*   anymail/backends/postmark.py  EmailBackend, PostmarkPayload           *)
(*   anymail/backends/mailgun.py   EmailBackend, MailgunPayload            *)
(*   anymail/utils.py              combine, last                           *)
(***************************************************************************)
EXTENDS Integers, Sequences, FiniteSets, TLC

\* ------------------------------------------------------------------ bounds
NumMsgs == 2        \* message objects the caller owns
MaxBatch == 2       \* longest email_messages list passed to send_messages
MaxRcpt == 2        \* most recipients of one message / items of one response
MaxSessions == 2    \* requests.Session objects created in one behaviour

\* ------------------------------------------------------------- value sets
None == "None"          \* Python None
Absent == "absent"      \* attribute never set on the object
NoSession == 0          \* self.session = None; sessions are numbered from 1

MsgIds == 1..NumMsgs

\* exception classes that can leave _send / open / close
AnymailErrors ==
    {"AnymailUnsupportedFeature", "AnymailRequestsAPIError", "AnymailRecipientsRefused"}
OtherErrors == {"RuntimeError", "RequestException"}
NoExc == "none"

\* `except AnymailError` of send_messages: the class test
IsAnymailError_Bare(e) == e \in AnymailErrors \cup OtherErrors
IsAnymailError(e) == e \in AnymailErrors

\* base.py lines 74-78: the exception leaves the loop unless it is an
\* AnymailError and fail_silently is set
Propagates_Always(e, fs) == e # NoExc
Propagates_ApiOnly(e, fs) == e # NoExc /\ ~(e = "AnymailRequestsAPIError" /\ fs)
Propagates(e, fs) == e # NoExc /\ ~(IsAnymailError(e) /\ fs)

\* per-recipient statuses Mandrill reports in a result item
EspStatuses == {"sent", "queued", "rejected", "invalid"}

\* tuples of length 0..n over S
RECURSIVE SeqsUpTo(_, _)
SeqsUpTo(S, n) ==
    IF n = 0 THEN {<<>>}
    ELSE LET shorter == SeqsUpTo(S, n - 1)
         IN shorter \cup {Append(s, x) : s \in {t \in shorter : Len(t) = n - 1}, x \in S}

\* HTTP status codes the ESP may answer with
HttpStatuses == {200, 202, 500}

\* response bodies: not JSON at all, JSON of another shape, or a JSON list of
\* result items (each item reduced to its "status" field)
Bodies ==
    {[kind |-> "notjson", items |-> <<>>], [kind |-> "json_other", items |-> <<>>]}
    \cup {[kind |-> "list", items |-> it] : it \in SeqsUpTo(EspStatuses, MaxRcpt)}

\* what the network and the ESP do with one POST: the connection fails, or
\* the ESP answers with a status code and a body
NetError ==
    [net |-> "error", status_code |-> 200, body |-> [kind |-> "notjson", items |-> <<>>]]
EspAnswers ==
    {NetError}
    \cup {[net |-> "ok", status_code |-> c, body |-> b] : c \in HttpStatuses, b \in Bodies}

\* three answers, one per way a POST can end: sent, API error, network error
CoreAnswers ==
    {NetError,
     [net |-> "ok", status_code |-> 200, body |-> [kind |-> "list", items |-> <<"sent">>]],
     [net |-> "ok", status_code |-> 500, body |-> [kind |-> "notjson", items |-> <<>>]]}

\* message.alternatives: the mimetypes attached
AltChoices ==
    {<<>>, <<"text/html">>, <<"application/json">>, <<"text/html", "text/html">>}

\* what send reads of one EmailMessage: len(message.recipients()) and alternatives
MessageShapes == [rcpts : 0..MaxRcpt, alternatives : AltChoices]

\* ------------------------------------------------------------------ state
VARIABLES
    fail_silently,            \* BaseEmailBackend.fail_silently
    ignore_recipient_status,  \* MandrillBackend.ignore_recipient_status
    session,                  \* AnymailRequestsBackend.session: None or a session id
    sessions_made,            \* how many requests.Session() objects exist so far
    anymail_status,           \* message.anymail_status of each message object
    pc,                       \* position of the caller in send_messages
    email_messages,           \* argument of the running send_messages call
    i,                        \* index of the next message of the for loop
    num_sent,                 \* local num_sent
    created_session,          \* local created_session (what open() returned)
    exc,                      \* exception propagating out of the call
    session_before,           \* session when send_messages was entered
    closes,                   \* close() calls made by the running send_messages
    log,                      \* per processed message: what _send did
    last,                     \* detail of the latest _send
    job,                      \* parse_recipient_status: the payload and the response
    recipient_status,         \* parse_recipient_status: the map it returns
    parse_exc,                \* parse_recipient_status: what it raised
    parse_pc,                 \* "ready" before the parse, "done" after
    op,                       \* payload construction: the operation and its inputs
    out,                      \* payload construction: what the operation produced
    threads                   \* concurrent send_messages calls: each thread's locals

vars == <<fail_silently, ignore_recipient_status, session, sessions_made,
          anymail_status, pc, email_messages, i, num_sent, created_session,
          exc, session_before, closes, log, last,
          job, recipient_status, parse_exc, parse_pc, op, out, threads>>

building == <<op, out>>
main == <<fail_silently, ignore_recipient_status, session, sessions_made,
          anymail_status, pc, email_messages, i, num_sent, created_session,
          exc, session_before, closes, log, last>>
parsing == <<job, recipient_status, parse_exc, parse_pc>>
config == <<fail_silently, ignore_recipient_status>>
call == <<email_messages, i, num_sent, created_session, exc, session_before,
          closes, log, last>>

\* the threads that call send_messages on the one backend, and the locals of
\* a thread that is not in a call
Threads == {1, 2}
Idle == [pc |-> "idle", left |-> 0, num_sent |-> 0, created_session |-> "False",
         exc |-> NoExc]
NoThreads == [t \in Threads |-> Idle]

\* `last` before any _send of the call
NoLast == [id |-> 0, shape |-> [rcpts |-> 0, alternatives |-> <<>>],
           answer |-> NetError, exc |-> NoExc, sent |-> FALSE, built |-> FALSE,
           posted |-> FALSE, had_status |-> FALSE]

\* ------------------------------------------------ MandrillBackend (pure)
\* mandrill.py _add_alternatives, guarded by build_message_payload line 65
build_message_payload(shape) ==
    IF Len(shape.alternatives) = 0 THEN NoExc
    ELSE IF Len(shape.alternatives) > 1 THEN "AnymailUnsupportedFeature"
    ELSE IF shape.alternatives[1] # "text/html" THEN "AnymailUnsupportedFeature"
    ELSE NoExc

\* base.py post_to_esp: anything but 200 is an API error
post_to_esp(status_code) ==
    IF status_code # 200 THEN "AnymailRequestsAPIError" ELSE NoExc

\* base.py deserialize_response: response.json() raising ValueError
deserialize_response(body) ==
    IF body.kind = "notjson" THEN "AnymailRequestsAPIError" ELSE NoExc

unique_statuses(items) == {items[k] : k \in 1..Len(items)}

\* mandrill.py validate_response: [exc, status]
validate_response_Any(body, ignore) ==
    IF body.kind # "list"
    THEN [exc |-> "AnymailRequestsAPIError", status |-> None]
    ELSE LET us == unique_statuses(body.items) IN
         IF us = {"sent"} THEN [exc |-> NoExc, status |-> "sent"]
         ELSE IF us = {"queued"} THEN [exc |-> NoExc, status |-> "queued"]
         ELSE IF us \cap {"invalid", "rejected"} # {}
              THEN IF ignore THEN [exc |-> NoExc, status |-> "refused"]
                   ELSE [exc |-> "AnymailRecipientsRefused", status |-> None]
         ELSE [exc |-> NoExc, status |-> "multi"]
validate_response(body, ignore) ==
    IF body.kind # "list"
    THEN [exc |-> "AnymailRequestsAPIError", status |-> None]
    ELSE LET us == unique_statuses(body.items) IN
         IF us = {"sent"} THEN [exc |-> NoExc, status |-> "sent"]
         ELSE IF us = {"queued"} THEN [exc |-> NoExc, status |-> "queued"]
         ELSE IF us \subseteq {"invalid", "rejected"}
              THEN IF ignore THEN [exc |-> NoExc, status |-> "refused"]
                   ELSE [exc |-> "AnymailRecipientsRefused", status |-> None]
         ELSE [exc |-> NoExc, status |-> "multi"]

\* base.py line 95: _send first resets message.anymail_status
InitialStatus_Keep(old) == old
InitialStatus(old) == None

\* base.py line 98: `if not message.recipients()`
no_recipients_Never(shape) == FALSE
no_recipients(shape) == shape.rcpts = 0

\* a _send that raised `e` after the reset of line 95
Raised(e, old, built, posted) ==
    [exc |-> e, sent |-> FALSE, status |-> InitialStatus(old),
     built |-> built, posted |-> posted]

\* AnymailRequestsBackend._send + AnymailBaseBackend._send for one message:
\* [exc, sent, status (new message.anymail_status), built, posted]
\* `old` is message.anymail_status before the call, `sess` the backend's session
SendResult(shape, old, sess, answer, ignore) ==
    IF sess = NoSession
    THEN [exc |-> "RuntimeError", sent |-> FALSE, status |-> old,
          built |-> FALSE, posted |-> FALSE]
    ELSE IF no_recipients(shape)
    THEN [exc |-> NoExc, sent |-> FALSE, status |-> InitialStatus(old),
          built |-> FALSE, posted |-> FALSE]
    ELSE IF build_message_payload(shape) # NoExc
    THEN Raised(build_message_payload(shape), old, FALSE, FALSE)
    ELSE IF answer.net = "error"
    THEN Raised("RequestException", old, TRUE, TRUE)
    ELSE IF post_to_esp(answer.status_code) # NoExc
    THEN Raised(post_to_esp(answer.status_code), old, TRUE, TRUE)
    ELSE IF deserialize_response(answer.body) # NoExc
    THEN Raised(deserialize_response(answer.body), old, TRUE, TRUE)
    ELSE LET v == validate_response(answer.body, ignore) IN
         IF v.exc # NoExc THEN Raised(v.exc, old, TRUE, TRUE)
         ELSE [exc |-> NoExc, sent |-> TRUE, status |-> v.status,
               built |-> TRUE, posted |-> TRUE]

\* ------------------------------------------- parse_recipient_status (pure)
\* addr_specs as the caller wrote them; one has upper-case letters
Addrs == {"a@x.com", "b@x.com", "C@x.com"}

\* str.lower() on an addr_spec
Lower(a) == IF a = "C@x.com" THEN "c@x.com" ELSE a

Range(seq) == {seq[k] : k \in 1..Len(seq)}

\* dict.update / item assignment: g's entries replace f's
Override(f, g) ==
    [a \in DOMAIN f \cup DOMAIN g |-> IF a \in DOMAIN g THEN g[a] ELSE f[a]]

\* AnymailRecipientStatus(message_id, status) for every address of `keys`
AllWith(keys, message_id, status) ==
    [a \in keys |-> [message_id |-> message_id, status |-> status]]

\* the message's resolved recipients: to, cc and bcc
Resolved(j) == Range(j.to) \cup Range(j.cc) \cup Range(j.bcc)

\* postmark.py lines 38: the keys parse_recipient_status starts from
PostmarkInitialKeys(j) == Range(j.to)

\* postmark.py parse_recipient_status for a non-batch response:
\* [exc, map]. resp.to_header is the "To" field of the response, resp.listed
\* the addresses its "Message" names
PostmarkParse(j, resp) ==
    LET start == AllWith(PostmarkInitialKeys(j), None, "unknown")
        named == {Lower(a) : a \in resp.listed}
        failed == [exc |-> "AnymailRequestsAPIError", map |-> <<>>]
    IN
    IF resp.kind = "malformed" THEN failed
    ELSE IF resp.error_code = 0
    THEN [exc |-> NoExc,
          map |-> Override(Override(start,
                      AllWith({Lower(a) : a \in Range(resp.to_header)}, "id", "sent")),
                      AllWith(named, None, "rejected"))]
    ELSE IF resp.error_code = 300
    THEN IF resp.from_invalid THEN failed
         ELSE [exc |-> NoExc, map |-> Override(start, AllWith(named, None, "invalid"))]
    ELSE IF resp.error_code = 406
    THEN [exc |-> NoExc, map |-> Override(start, AllWith(named, None, "rejected"))]
    ELSE failed

\* mailgun.py set_recipients: payload.all_recipients collects to, cc and bcc
all_recipients(j) == j.to \o j.cc \o j.bcc

\* mailgun.py parse_recipient_status: [exc, map]
MailgunParse(j, resp) ==
    IF resp.kind = "malformed" \/ ~resp.queued
    THEN [exc |-> "AnymailRequestsAPIError", map |-> <<>>]
    ELSE [exc |-> NoExc, map |-> AllWith(Range(all_recipients(j)), "id", "queued")]

\* the messages parsed: up to MaxRcpt `to` addresses, at most one cc and bcc
ParseMessages ==
    [to : SeqsUpTo(Addrs, MaxRcpt), cc : SeqsUpTo(Addrs, 1), bcc : SeqsUpTo(Addrs, 1)]

\* what Postmark answers for message j: it echoes the To header, and names
\* only recipients of the message as inactive or invalid
PostmarkResponses(j) ==
    {[kind |-> "malformed", error_code |-> 0, to_header |-> <<>>, listed |-> {},
      from_invalid |-> FALSE]}
    \cup {[kind |-> "ok", error_code |-> 0, to_header |-> j.to, listed |-> l,
           from_invalid |-> FALSE] : l \in SUBSET Resolved(j)}
    \cup {[kind |-> "ok", error_code |-> 300, to_header |-> <<>>, listed |-> {a},
           from_invalid |-> FALSE] : a \in Resolved(j)}
    \cup {[kind |-> "ok", error_code |-> 300, to_header |-> <<>>, listed |-> {},
           from_invalid |-> TRUE]}
    \cup {[kind |-> "ok", error_code |-> 406, to_header |-> <<>>, listed |-> l,
           from_invalid |-> FALSE] : l \in (SUBSET Resolved(j)) \ {{}}}
    \cup {[kind |-> "ok", error_code |-> 401, to_header |-> <<>>, listed |-> {},
           from_invalid |-> FALSE]}

\* what Mailgun answers
MailgunResponses ==
    {[kind |-> "malformed", queued |-> FALSE], [kind |-> "ok", queued |-> FALSE],
     [kind |-> "ok", queued |-> TRUE]}

NoJob == [esp |-> "none"]

\* no payload operation under way, and nothing produced yet
NoOp == [kind |-> "none"]
NoOut == [done |-> FALSE]

\* ------------------------------------------------------------------ Init
Init ==
    /\ fail_silently \in BOOLEAN
    /\ ignore_recipient_status \in BOOLEAN
    /\ session = NoSession
    /\ sessions_made = 0
    /\ anymail_status = [m \in MsgIds |-> Absent]
    /\ pc = "idle"
    /\ email_messages = <<>>
    /\ i = 1
    /\ num_sent = 0
    /\ created_session = "False"
    /\ exc = NoExc
    /\ session_before = NoSession
    /\ closes = 0
    /\ log = <<>>
    /\ last = NoLast
    /\ job = NoJob
    /\ recipient_status = <<>>
    /\ parse_exc = NoExc
    /\ parse_pc = "idle"
    /\ op = NoOp
    /\ out = NoOut
    /\ threads = NoThreads

\* --------------------------------------------------- open / close (pure)
\* AnymailRequestsBackend.open: [session, rv, exc]; rv is "True", "False" or
\* None (the fall-through after a swallowed RequestException)
open_Recreates(sess, fresh, fails, fs) ==
    IF fails
    THEN [session |-> NoSession, rv |-> None,
          exc |-> IF fs THEN NoExc ELSE "RequestException"]
    ELSE [session |-> fresh, rv |-> "True", exc |-> NoExc]
open(sess, fresh, fails, fs) ==
    IF sess # NoSession THEN [session |-> sess, rv |-> "False", exc |-> NoExc]
    ELSE IF fails
         THEN [session |-> NoSession, rv |-> None,
               exc |-> IF fs THEN NoExc ELSE "RequestException"]
    ELSE [session |-> fresh, rv |-> "True", exc |-> NoExc]

\* AnymailRequestsBackend.close: [session, exc]
close(sess, fails, fs) ==
    IF sess = NoSession THEN [session |-> NoSession, exc |-> NoExc]
    ELSE [session |-> NoSession,
          exc |-> IF fails /\ ~fs THEN "RequestException" ELSE NoExc]

\* `if created_session:` of send_messages' finally clause
ShouldClose_Always(rv) == TRUE
ShouldClose(rv) == rv = "True"

CanOpen == session # NoSession \/ sessions_made < MaxSessions

\* --------------------------------------------------------------- actions
\* the caller opens the connection itself, outside any send_messages call
CallerOpen ==
    /\ pc = "idle"
    /\ CanOpen
    /\ \E fails \in BOOLEAN :
         LET o == open(session, sessions_made + 1, fails, fail_silently) IN
         /\ session' = o.session
         /\ sessions_made' = IF o.rv = "True" THEN sessions_made + 1 ELSE sessions_made
    /\ UNCHANGED <<config, parsing, building, threads, anymail_status, pc, call>>

\* the caller closes the connection itself
CallerClose ==
    /\ pc = "idle"
    /\ session' = close(session, FALSE, fail_silently).session
    /\ UNCHANGED <<config, parsing, building, threads, sessions_made, anymail_status, pc, call>>

\* send_messages, lines 64-68, called with one of `batches`: the empty-list
\* return and the open() call
send_messages(batches) ==
    /\ pc = "idle"
    /\ CanOpen
    /\ \E ms \in batches, fails \in BOOLEAN :
         IF ms = <<>>
         THEN /\ pc' = "returned"
              /\ email_messages' = ms
              /\ session_before' = session
              /\ UNCHANGED <<session, sessions_made, created_session, exc>>
         ELSE LET o == open(session, sessions_made + 1, fails, fail_silently) IN
              /\ email_messages' = ms
              /\ session_before' = session
              /\ session' = o.session
              /\ sessions_made' = IF o.rv = "True" THEN sessions_made + 1
                                  ELSE sessions_made
              /\ created_session' = o.rv
              /\ exc' = o.exc
              /\ pc' = IF o.exc # NoExc THEN "raised" ELSE "loop"
    /\ i' = 1
    /\ num_sent' = 0
    /\ closes' = 0
    /\ log' = <<>>
    /\ last' = NoLast
    /\ UNCHANGED <<config, parsing, building, threads, anymail_status>>

\* the ESP gets to answer only a POST that is made: with no session, no
\* recipients or no payload there is no request to answer
AnswersTo(shape, sess, answers) ==
    IF sess = NoSession \/ no_recipients(shape) \/ build_message_payload(shape) # NoExc
    THEN {NetError}
    ELSE answers

\* what one loop iteration leaves in the log: the exception, or how _send returned
Outcome(r) == IF r.exc # NoExc THEN r.exc ELSE IF r.sent THEN "sent" ELSE "skipped"

\* one iteration of the for loop, lines 71-80: _send and the except clause;
\* the ESP's answer is one of `answers`
Iterate(answers) ==
    /\ pc = "loop"
    /\ i <= Len(email_messages)
    /\ \E shape \in MessageShapes :
       \E answer \in AnswersTo(shape, session, answers) :
         LET m == email_messages[i]
             r == SendResult(shape, anymail_status[m], session, answer,
                             ignore_recipient_status)
             sent == IF r.exc = NoExc THEN r.sent ELSE FALSE
             goes_on == ~Propagates(r.exc, fail_silently)
         IN
         /\ anymail_status' = [anymail_status EXCEPT ![m] = r.status]
         /\ num_sent' = IF sent THEN num_sent + 1 ELSE num_sent
         /\ log' = Append(log, [id |-> m, out |-> Outcome(r)])
         /\ last' = [id |-> m, shape |-> shape,
                     answer |-> IF r.posted THEN answer ELSE NetError,
                     exc |-> r.exc, sent |-> sent, built |-> r.built,
                     posted |-> r.posted,
                     had_status |-> anymail_status[m] \notin {Absent, None}]
         /\ exc' = IF goes_on THEN NoExc ELSE r.exc
         /\ i' = IF goes_on THEN i + 1 ELSE i
         /\ pc' = IF goes_on /\ i + 1 <= Len(email_messages) THEN "loop"
                  ELSE "finally"
    /\ UNCHANGED <<config, parsing, building, threads, session, sessions_made, email_messages,
                   created_session, session_before, closes>>

\* a batch of up to MaxBatch of the caller's message objects
SendMessages == send_messages(SeqsUpTo(MsgIds, MaxBatch))
SendOne == Iterate(CoreAnswers)

\* the finally clause, lines 81-85: close() iff open() returned True
Finally ==
    /\ pc = "finally"
    /\ \E fails \in BOOLEAN :
         IF ShouldClose(created_session)
         THEN LET c == close(session, fails, fail_silently) IN
              /\ session' = c.session
              /\ closes' = closes + 1
              /\ exc' = IF c.exc # NoExc THEN c.exc ELSE exc
              /\ pc' = IF c.exc # NoExc \/ exc # NoExc THEN "raised" ELSE "returned"
         ELSE /\ pc' = IF exc # NoExc THEN "raised" ELSE "returned"
              /\ UNCHANGED <<session, closes, exc>>
    /\ UNCHANGED <<config, parsing, building, threads, sessions_made, anymail_status,
                   email_messages, i,
                   num_sent, created_session, session_before, log, last>>

\* the caller takes the result (or the exception) and goes on, either keeping
\* the message objects it sent, to send them again, or dropping them, so that
\* its next call sends newly built messages
ReturnTo(keeps) ==
    /\ pc \in {"returned", "raised"}
    /\ pc' = "idle"
    /\ anymail_status' = IF keeps THEN anymail_status ELSE [m \in MsgIds |-> Absent]
    /\ email_messages' = <<>>
    /\ i' = 1
    /\ num_sent' = 0
    /\ created_session' = "False"
    /\ exc' = NoExc
    /\ session_before' = NoSession
    /\ closes' = 0
    /\ log' = <<>>
    /\ last' = NoLast
    /\ UNCHANGED <<config, parsing, building, threads, session, sessions_made>>

Return == ReturnTo(FALSE)

Next ==
    \/ CallerOpen
    \/ CallerClose
    \/ SendMessages
    \/ SendOne
    \/ Finally
    \/ Return

Spec == Init /\ [][Next]_vars

\* ------------------------------------- two threads, one backend instance
\* send_messages run by two threads on the same backend: self.session and
\* the fail_silently setting are shared, everything else is local to the
\* call. The threads interleave between statements; open() is two steps, the
\* test of self.session (line 313) and the creation of the session (317).
InitThreads ==
    /\ fail_silently \in BOOLEAN
    /\ ignore_recipient_status = FALSE
    /\ session = NoSession
    /\ sessions_made = 0
    /\ anymail_status = [m \in MsgIds |-> Absent]
    /\ pc = "idle"
    /\ email_messages = <<>>
    /\ i = 1
    /\ num_sent = 0
    /\ created_session = "False"
    /\ exc = NoExc
    /\ session_before = NoSession
    /\ closes = 0
    /\ log = <<>>
    /\ last = NoLast
    /\ job = NoJob
    /\ recipient_status = <<>>
    /\ parse_exc = NoExc
    /\ parse_pc = "idle"
    /\ op = NoOp
    /\ out = NoOut
    /\ threads = NoThreads

shared == <<session, sessions_made>>
locals == <<anymail_status, pc, call, parsing, building, config>>

\* lines 64-68 up to the test of open(): an empty list returns 0 at once; with
\* a session open() returns False, without one it goes on to create it
ThreadCalls(t) ==
    /\ threads[t].pc = "idle"
    /\ sessions_made < MaxSessions
    /\ \E n \in 0..MaxBatch :
         threads' = [threads EXCEPT ![t] =
             IF n = 0 THEN [Idle EXCEPT !.pc = "returned"]
             ELSE IF session # NoSession
                  THEN [Idle EXCEPT !.pc = "loop", !.left = n,
                                    !.created_session = open(session, session, FALSE,
                                                             fail_silently).rv]
             ELSE [Idle EXCEPT !.pc = "open", !.left = n]]
    /\ UNCHANGED <<shared, locals>>

\* lines 316-324 of open(), reached with self.session found None at line 313:
\* the session is created and assigned, whatever self.session is by now
ThreadOpens(t) ==
    /\ threads[t].pc = "open"
    /\ \E fails \in BOOLEAN :
         LET o == open(NoSession, sessions_made + 1, fails, fail_silently) IN
         /\ session' = IF o.rv = "True" THEN o.session ELSE session
         /\ sessions_made' = IF o.rv = "True" THEN sessions_made + 1 ELSE sessions_made
         /\ threads' = [threads EXCEPT ![t].created_session = o.rv,
                                       ![t].exc = o.exc,
                                       ![t].pc = IF o.exc # NoExc THEN "raised" ELSE "loop"]
    /\ UNCHANGED locals

\* one iteration of the loop, lines 71-80, for a message with one recipient
ThreadSends(t) ==
    /\ threads[t].pc = "loop"
    /\ threads[t].left > 0
    /\ \E answer \in AnswersTo([rcpts |-> 1, alternatives |-> <<>>], session, CoreAnswers) :
         LET r == SendResult([rcpts |-> 1, alternatives |-> <<>>], Absent, session, answer,
                             ignore_recipient_status)
             goes_on == ~Propagates(r.exc, fail_silently)
         IN threads' = [threads EXCEPT
                ![t].num_sent = IF r.exc = NoExc /\ r.sent THEN @ + 1 ELSE @,
                ![t].exc = IF goes_on THEN NoExc ELSE r.exc,
                ![t].left = IF goes_on THEN @ - 1 ELSE @,
                ![t].pc = IF goes_on /\ threads[t].left > 1 THEN "loop" ELSE "finally"]
    /\ UNCHANGED <<shared, locals>>

\* the finally clause, lines 81-83
ThreadFinally(t) ==
    /\ threads[t].pc = "finally"
    /\ \E fails \in BOOLEAN :
         IF ShouldClose(threads[t].created_session)
         THEN LET c == close(session, fails, fail_silently) IN
              /\ session' = c.session
              /\ threads' = [threads EXCEPT
                     ![t].exc = IF c.exc # NoExc THEN c.exc ELSE @,
                     ![t].pc = IF c.exc # NoExc \/ threads[t].exc # NoExc THEN "raised"
                               ELSE "returned"]
         ELSE /\ threads' = [threads EXCEPT
                     ![t].pc = IF threads[t].exc # NoExc THEN "raised" ELSE "returned"]
              /\ UNCHANGED session
    /\ UNCHANGED <<sessions_made, locals>>

\* the thread takes the result, or the exception, and may call again
ThreadReturns(t) ==
    /\ threads[t].pc \in {"returned", "raised"}
    /\ threads' = [threads EXCEPT ![t] = Idle]
    /\ UNCHANGED <<shared, locals>>

Calls == \E t \in Threads : ThreadCalls(t)
Opens == \E t \in Threads : ThreadOpens(t)
Sends == \E t \in Threads : ThreadSends(t)
Finallys == \E t \in Threads : ThreadFinally(t)
Returns == \E t \in Threads : ThreadReturns(t)

NextThreads ==
    \/ Calls
    \/ Opens
    \/ Sends
    \/ Finallys
    \/ Returns

SpecThreads == InitThreads /\ [][NextThreads]_vars

\* ------------------------------------------------ one message, any answer
\* the same machine sending message object 1 alone, the ESP answering with
\* any status code and any body
SendSingle == send_messages({<<>>, <<1>>})
SendAny == Iterate(EspAnswers)
ReturnKeep == ReturnTo(TRUE)

NextSend ==
    \/ CallerOpen
    \/ CallerClose
    \/ SendSingle
    \/ SendAny
    \/ Finally
    \/ ReturnKeep

SpecSend == Init /\ [][NextSend]_vars

\* --------------------------------------------- response normalisation
\* parse_recipient_status applied to one message with recipients and one
\* response of its ESP
InitParse ==
    /\ fail_silently = FALSE
    /\ ignore_recipient_status = FALSE
    /\ session = NoSession
    /\ sessions_made = 0
    /\ anymail_status = [m \in MsgIds |-> Absent]
    /\ pc = "idle"
    /\ email_messages = <<>>
    /\ i = 1
    /\ num_sent = 0
    /\ created_session = "False"
    /\ exc = NoExc
    /\ session_before = NoSession
    /\ closes = 0
    /\ log = <<>>
    /\ last = NoLast
    /\ \E m \in {x \in ParseMessages : Resolved(x) # {}} :
          \/ \E r \in PostmarkResponses(m) :
                job = [esp |-> "Postmark", msg |-> m, response |-> r]
          \/ \E r \in MailgunResponses :
                job = [esp |-> "Mailgun", msg |-> m, response |-> r]
    /\ recipient_status = <<>>
    /\ parse_exc = NoExc
    /\ parse_pc = "ready"
    /\ op = NoOp
    /\ out = NoOut
    /\ threads = NoThreads

ParsePostmark ==
    /\ parse_pc = "ready"
    /\ job.esp = "Postmark"
    /\ LET r == PostmarkParse(job.msg, job.response) IN
          /\ recipient_status' = r.map
          /\ parse_exc' = r.exc
    /\ parse_pc' = "done"
    /\ UNCHANGED <<main, building, threads, job>>

ParseMailgun ==
    /\ parse_pc = "ready"
    /\ job.esp = "Mailgun"
    /\ LET r == MailgunParse(job.msg, job.response) IN
          /\ recipient_status' = r.map
          /\ parse_exc' = r.exc
    /\ parse_pc' = "done"
    /\ UNCHANGED <<main, building, threads, job>>

NextParse ==
    \/ ParsePostmark
    \/ ParseMailgun

SpecParse == InitParse /\ [][NextParse]_vars

\* ---------------------------------------------------- payload construction
\* the operations that build one request, each applied to one input: `op`
\* holds the operation's name and its arguments, `out` what it produced

\* a setting or keyword argument that may be missing: the set of its values,
\* empty when it is not given
NotGiven == {}

\* base.py line 376, session.post(api_url, data=post_data): the timeout
\* keyword of the POST, given the REQUESTS_TIMEOUT setting
session_post_timeout(REQUESTS_TIMEOUT) == NotGiven

\* the POSTs made: the setting missing or set, the ESP answering any status
PostOps ==
    [kind : {"post"}, REQUESTS_TIMEOUT : {NotGiven, {5}, {60}}, status_code : HttpStatuses]

\* ------------------------------------------------------ utils.py (pure)
\* Python values of the Anymail attributes: UNSET, None, a dict or a list.
\* d is the dict's content over DictKeys (0: key not in the dict), l the
\* list's items; "TypeError" stands for the call having raised it
DictKeys == {"k1", "k2"}
Items12 == {1, 2}
EmptyDict == [k \in DictKeys |-> 0]
PyVal(t, d, l) == [t |-> t, d |-> d, l |-> l]
UNSET == PyVal("UNSET", EmptyDict, <<>>)
PyNone == PyVal("None", EmptyDict, <<>>)
PyDict(d) == PyVal("dict", d, <<>>)
PyList(l) == PyVal("list", EmptyDict, l)
PyTypeError == PyVal("TypeError", EmptyDict, <<>>)

PyDicts == {PyDict(d) : d \in [DictKeys -> {0} \cup Items12]}
PyLists == {PyList(l) : l \in SeqsUpTo(Items12, 2)}
PyValues == {UNSET, PyNone} \cup PyDicts \cup PyLists

\* dict.update(e) on a copy of d
DictUpdate_KeepsOld(d, e) == [k \in DictKeys |-> IF d[k] # 0 THEN d[k] ELSE e[k]]
DictUpdate(d, e) == [k \in DictKeys |-> IF e[k] # 0 THEN e[k] ELSE d[k]]

\* utils.py lines 34-47: the body of combine's loop for one argument
combine_step_NoneSkipped(result, value) ==
    IF result.t = "TypeError" THEN result
    ELSE IF value.t \in {"None", "UNSET"} THEN result
    ELSE IF result.t = "UNSET" THEN value
    ELSE IF result.t = "dict"
         THEN IF value.t = "dict" THEN PyDict(DictUpdate(result.d, value.d))
              ELSE IF value.l = <<>> THEN result
              ELSE PyTypeError
    ELSE IF value.t = "list" THEN PyList(result.l \o value.l)
    ELSE PyTypeError
combine_step(result, value) ==
    IF result.t = "TypeError" THEN result
    ELSE IF value.t = "None" THEN UNSET
    ELSE IF value.t = "UNSET" THEN result
    ELSE IF result.t = "UNSET" THEN value
    ELSE IF result.t = "dict"
         THEN IF value.t = "dict" THEN PyDict(DictUpdate(result.d, value.d))
              ELSE IF value.l = <<>> THEN result
              ELSE PyTypeError
    ELSE IF value.t = "list" THEN PyList(result.l \o value.l)
    ELSE PyTypeError

RECURSIVE combine_loop(_, _, _)
combine_loop(result, args, k) ==
    IF k > Len(args) THEN result
    ELSE combine_loop(combine_step(result, args[k]), args, k + 1)

\* utils.py combine(*args)
combine(args) == combine_loop(UNSET, args, 1)

\* the calls of combine made: up to three arguments
CombineOps == [kind : {"combine"}, args : SeqsUpTo(PyValues, 3)]

\* ------------------------------------------- PostmarkPayload (pure)
\* template variables: what merge_global_data gives (values 0 or 1) and what
\* one recipient's merge_data entry gives (values 0 or 2); 0: no such key
GlobalDicts == [DictKeys -> {0, 1}]
RecipientDicts == [DictKeys -> {0, 2}]

\* one address of merge_data: no entry, or the entry's dict
NoEntry == [has |-> FALSE, d |-> EmptyDict]
Entries == {NoEntry} \cup {[has |-> TRUE, d |-> d] : d \in RecipientDicts}

\* message.merge_data and message.merge_global_data: not set, or set to the
\* map `m` / the dict `d`
MergeDatas ==
    {[present |-> FALSE, m |-> [a \in Addrs |-> NoEntry]]}
    \cup {[present |-> TRUE, m |-> m] : m \in [Addrs -> Entries]}
MergeGlobalDatas ==
    {[present |-> FALSE, d |-> EmptyDict]}
    \cup {[present |-> TRUE, d |-> d] : d \in GlobalDicts}

\* the addresses merge_data has an entry for
merge_data_keys(md) == {a \in Addrs : md.m[a].has}

\* the messages built: one or more `to` addresses, a template id or none
TemplateMessages ==
    [to : SeqsUpTo(Addrs, MaxRcpt) \ {<<>>}, template_id : BOOLEAN,
     merge_data : MergeDatas, merge_global_data : MergeGlobalDatas]

\* postmark.py init_payload and the setters set_recipients, set_template_id,
\* set_merge_data, set_merge_global_data, each called for an attribute that
\* is set: the payload before it is serialized
PostmarkPayload(message) ==
    [data |-> [To |-> message.to,
               has_TemplateId |-> message.template_id,
               has_TemplateModel |-> message.merge_global_data.present,
               TemplateModel |-> message.merge_global_data.d],
     to_emails |-> message.to,
     merge_data |-> message.merge_data]

\* postmark.py line 141
batch_send(payload) == payload.merge_data.present /\ Len(payload.to_emails) > 1

\* postmark.py get_api_endpoint
get_api_endpoint(payload) ==
    IF payload.data.has_TemplateId \/ payload.data.has_TemplateModel
    THEN IF batch_send(payload) THEN "email/batchWithTemplates" ELSE "email/withTemplate/"
    ELSE IF batch_send(payload) THEN "email/batch" ELSE "email"

\* postmark.py data_for_recipient; `self.merge_data and ...` is false for an
\* empty map
data_for_recipient_GlobalWins(payload, to) ==
    LET data == [payload.data EXCEPT !.To = <<to>>] IN
    IF merge_data_keys(payload.merge_data) # {} /\ payload.merge_data.m[to].has
    THEN LET recipient_data == payload.merge_data.m[to].d IN
         IF data.has_TemplateModel
         THEN [data EXCEPT !.TemplateModel = DictUpdate(recipient_data, data.TemplateModel)]
         ELSE [data EXCEPT !.has_TemplateModel = TRUE, !.TemplateModel = recipient_data]
    ELSE data
data_for_recipient(payload, to) ==
    LET data == [payload.data EXCEPT !.To = <<to>>] IN
    IF merge_data_keys(payload.merge_data) # {} /\ payload.merge_data.m[to].has
    THEN LET recipient_data == payload.merge_data.m[to].d IN
         IF data.has_TemplateModel
         THEN [data EXCEPT !.TemplateModel = DictUpdate(data.TemplateModel, recipient_data)]
         ELSE [data EXCEPT !.has_TemplateModel = TRUE, !.TemplateModel = recipient_data]
    ELSE data

\* postmark.py serialize_data: the request bodies, in the order serialized
\* (a single body unless the endpoint is a batch one); nothing here raises
serialize_data(payload) ==
    LET api_endpoint == get_api_endpoint(payload) IN
    [exc |-> NoExc,
     api_endpoint |-> api_endpoint,
     bodies |-> IF api_endpoint \in {"email/batchWithTemplates", "email/batch"}
                THEN [k \in 1..Len(payload.to_emails) |->
                         data_for_recipient(payload, payload.to_emails[k])]
                ELSE <<payload.data>>]

PostmarkOps == [kind : {"postmark"}, message : TemplateMessages]

\* --------------------------------------------- MailgunPayload (pure)
\* metadata values: 0 no such key, 1 from message.metadata, 2 from a
\* recipient's merge_metadata entry, EmptyString the '' default of line 141
EmptyString == 9
MetaKeys == {"m1"}
NoMeta == [k \in MetaKeys |-> 0]
Metadatas == [MetaKeys -> {0, 1}]
NoMetaEntry == [has |-> FALSE, d |-> NoMeta]
MetaEntries == {NoMetaEntry, [has |-> TRUE, d |-> [k \in MetaKeys |-> 2]]}

\* the payloads populated: MailgunPayload's late-bound fields, each {} unless
\* its setter was called; to_emails are the addr_specs of `to`
MailgunPayloads ==
    [to_emails : SeqsUpTo(Addrs, MaxRcpt),
     merge_data : [Addrs -> {NoEntry, [has |-> TRUE, d |-> [k \in DictKeys |-> IF k = "k1" THEN 2 ELSE 0]]}],
     merge_global_data : {EmptyDict, [k \in DictKeys |-> 1]},
     metadata : Metadatas,
     merge_metadata : [Addrs -> MetaEntries]]

\* mailgun.py lines 128-130: all keys used in any recipient's merge_metadata
merge_metadata_keys(payload) ==
    {k \in MetaKeys : \E a \in Addrs :
        payload.merge_metadata[a].has /\ payload.merge_metadata[a].d[k] # 0}

\* mailgun.py lines 141-142: metadata.get(key, '') for the merge_metadata keys
base_metadata(payload) ==
    [k \in MetaKeys |->
        IF k \notin merge_metadata_keys(payload) THEN 0
        ELSE IF payload.metadata[k] # 0 THEN payload.metadata[k]
        ELSE EmptyString]

\* mailgun.py lines 148-161: recipient_data of one address: vars are the
\* substitution variables, meta the 'v:'-prefixed metadata variables
recipient_data(payload, addr) ==
    [vars |-> IF payload.merge_data[addr].has
              THEN DictUpdate(payload.merge_global_data, payload.merge_data[addr].d)
              ELSE payload.merge_global_data,
     meta |-> IF payload.merge_metadata[addr].has
              THEN [k \in MetaKeys |->
                       IF payload.merge_metadata[addr].d[k] # 0
                       THEN payload.merge_metadata[addr].d[k]
                       ELSE base_metadata(payload)[k]]
              ELSE base_metadata(payload)]

NoRecipientData == [vars |-> EmptyDict, meta |-> NoMeta]

\* mailgun.py populate_recipient_variables: recipient_vars, as the entry of
\* every address (has: the address is a key of recipient-variables); the
\* addresses looped over are `addrs`
recipient_vars_over(payload, addrs) ==
    [exc |-> NoExc,
     recipient_vars |->
        [a \in Addrs |->
            IF a \in addrs /\ recipient_data(payload, a) # NoRecipientData
            THEN [has |-> TRUE, data |-> recipient_data(payload, a)]
            ELSE [has |-> FALSE, data |-> NoRecipientData]]]

populate_recipient_variables_AllKeys(payload) ==
    recipient_vars_over(payload,
        Range(payload.to_emails) \cup {a \in Addrs : payload.merge_data[a].has})
populate_recipient_variables(payload) ==
    recipient_vars_over(payload, Range(payload.to_emails))

MailgunOps == [kind : {"mailgun"}, payload : MailgunPayloads]

\* ------------------------------------------------- set_esp_extra (pure)
\* a request's data before esp_extra, and esp_extra itself, over three keys:
\* Tag (a plain value, 0: key missing), TemplateModel (a nested map,
\* has_TemplateModel: key there) and server_token (0: key missing). What the
\* setters wrote has values 0 or 1, what esp_extra gives has 0 or 2
NestedMaps(dicts) ==
    {[has_TemplateModel |-> FALSE, TemplateModel |-> EmptyDict]}
    \cup {[has_TemplateModel |-> TRUE, TemplateModel |-> d] : d \in dicts}
ExtraTargets ==
    {[Tag |-> t, has_TemplateModel |-> n.has_TemplateModel,
      TemplateModel |-> n.TemplateModel, server_token |-> 0] :
        t \in {0, 1}, n \in NestedMaps(GlobalDicts)}
EspExtras ==
    {[Tag |-> t, has_TemplateModel |-> n.has_TemplateModel,
      TemplateModel |-> n.TemplateModel, server_token |-> k] :
        t \in {0, 2}, k \in {0, 2}, n \in NestedMaps(RecipientDicts)}

\* postmark.py set_esp_extra (mailgun.py's is the same with sender_domain):
\* self.data.update(extra), then server_token is popped out of data;
\* `token` is payload.server_token before the call
set_esp_extra(data, token, extra) ==
    LET updated == [Tag |-> IF extra.Tag # 0 THEN extra.Tag ELSE data.Tag,
                    has_TemplateModel |-> extra.has_TemplateModel \/ data.has_TemplateModel,
                    TemplateModel |-> IF extra.has_TemplateModel THEN extra.TemplateModel
                                      ELSE data.TemplateModel,
                    server_token |-> IF extra.server_token # 0 THEN extra.server_token
                                     ELSE data.server_token]
    IN [data |-> [updated EXCEPT !.server_token = 0],
        server_token |-> IF updated.server_token # 0 THEN updated.server_token ELSE token]

EspExtraOps == [kind : {"esp_extra"}, data : ExtraTargets, extra : EspExtras]

\* --------------------------------------------------- HTML bodies (pure)
\* mandrill.py lines 135-139 and 268: where msg_dict['html'] comes from once
\* the message is built: nowhere, the message body, or the alternative
mandrill_html(content_subtype, alternatives) ==
    IF build_message_payload([rcpts |-> 1, alternatives |-> alternatives]) # NoExc
    THEN "none"
    ELSE IF Len(alternatives) = 1 THEN "alternative"
    ELSE IF content_subtype = "html" THEN "body"
    ELSE "none"

\* postmark.py (and mailgun.py) set_html_body on a payload that has an HTML
\* body already or not: [exc, has_html]
set_html_body(has_html) ==
    IF has_html THEN [exc |-> "AnymailUnsupportedFeature", has_html |-> TRUE]
    ELSE [exc |-> NoExc, has_html |-> TRUE]

\* the payload's add_alternative: a text/html part is the HTML body, any
\* other part is unsupported
add_alternative(has_html, mimetype) ==
    IF mimetype = "text/html" THEN set_html_body(has_html)
    ELSE [exc |-> "AnymailUnsupportedFeature", has_html |-> has_html]

RECURSIVE add_alternatives(_, _, _)
add_alternatives(state, alternatives, k) ==
    IF k > Len(alternatives) \/ state.exc # NoExc THEN state
    ELSE add_alternatives(add_alternative(state.has_html, alternatives[k]),
                          alternatives, k + 1)

\* base.py lines 137-144: the body goes to set_html_body or set_text_body,
\* then every alternative is added in order
set_bodies(content_subtype, alternatives) ==
    LET body == IF content_subtype = "html" THEN set_html_body(FALSE)
                ELSE [exc |-> NoExc, has_html |-> FALSE]
    IN add_alternatives(body, alternatives, 1)

HtmlOps ==
    [kind : {"html"}, esp : {"Mandrill", "Postmark", "Mailgun"},
     content_subtype : {"plain", "html"}, alternatives : AltChoices]

\* -------------------------------------------- Anymail attributes (pure)
\* a plain value (a date, a flag): send_at, track_clicks, track_opens
PyScalar(x) == PyVal("scalar", EmptyDict, <<x>>)

\* utils.py lines 64-70: the loop of last over reversed(args), from args[k] down
RECURSIVE last_loop_NoneSkipped(_, _)
last_loop_NoneSkipped(args, k) ==
    IF k = 0 THEN UNSET
    ELSE IF args[k].t \notin {"UNSET", "None"} THEN args[k]
    ELSE last_loop_NoneSkipped(args, k - 1)
RECURSIVE last_loop(_, _)
last_loop(args, k) ==
    IF k = 0 THEN UNSET
    ELSE IF args[k].t = "None" THEN UNSET
    ELSE IF args[k].t # "UNSET" THEN args[k]
    ELSE last_loop(args, k - 1)

\* utils.py last(*args): `last` names the latest _send here
utils_last_First(args) == IF args = <<>> THEN UNSET ELSE last_loop(<<args[1]>>, 1)
utils_last(args) == last_loop(args, Len(args))

\* base.py get_anymail_attr / get_anymail_merged_attr: `attr` is the pair of
\* send_defaults.get(attr, UNSET) and getattr(message, attr, UNSET)
get_anymail_attr_MessageOnly(attr) == utils_last(<<attr.message>>)
get_anymail_attr(attr) == utils_last(<<attr.default, attr.message>>)
get_anymail_merged_attr(attr) == combine(<<attr.default, attr.message>>)

\* the Anymail additions in the order build_message_payload handles them
AnymailAttrs == <<"metadata", "send_at", "tags", "track_clicks", "track_opens">>
MergedAttrs == {"metadata", "tags"}

\* what the settings and the message give for one attribute of value v:
\* nothing, a default only, a message value only, or a default the message
\* clears with None
AttrPairs(v) ==
    {[default |-> UNSET, message |-> UNSET], [default |-> v, message |-> UNSET],
     [default |-> UNSET, message |-> v], [default |-> v, message |-> PyNone]}
AttrValue(name) ==
    IF name = "metadata" THEN PyDict([k \in DictKeys |-> 1])
    ELSE IF name = "tags" THEN PyList(<<1>>)
    ELSE PyScalar(1)

\* backends by the setters they override: none, the tag and tracking
\* setters, or all five
Backends ==
    {[esp_name |-> "Example", overrides |-> {}],
     [esp_name |-> "Partial", overrides |-> {"tags", "track_clicks", "track_opens"}],
     [esp_name |-> "Full", overrides |-> Range(AnymailAttrs)]}

\* base.py unsupported_feature: the exception and its message; the setting
\* IGNORE_UNSUPPORTED_FEATURES is `ignore`
unsupported_feature(esp_name, feature, ignore) ==
    [exc |-> "AnymailUnsupportedFeature",
     message |-> <<esp_name, "does not support", feature>>]

NoMessage == <<"", "", "">>

\* base.py lines 150-165: each attribute is resolved and, unless UNSET, given
\* to its setter, which is unsupported_feature unless the backend overrides it
RECURSIVE set_anymail_attrs(_, _, _, _)
set_anymail_attrs(backend, attrs, ignore, k) ==
    IF k > Len(AnymailAttrs) THEN [exc |-> NoExc, message |-> NoMessage]
    ELSE LET name == AnymailAttrs[k]
             value == IF name \in MergedAttrs THEN get_anymail_merged_attr(attrs[name])
                      ELSE get_anymail_attr(attrs[name])
             raised == unsupported_feature(backend.esp_name, name, ignore)
         IN IF value # UNSET /\ name \notin backend.overrides /\ raised.exc # NoExc
            THEN raised
            ELSE set_anymail_attrs(backend, attrs, ignore, k + 1)

\* base.py _send lines 101-103 for a message with recipients: the payload is
\* built, and posted unless building raised
build_and_post(backend, attrs, ignore) ==
    LET built == set_anymail_attrs(backend, attrs, ignore, 1) IN
    [exc |-> built.exc, message |-> built.message, posted |-> built.exc = NoExc]

AttrOps ==
    [kind : {"attrs"}, backend : Backends, IGNORE_UNSUPPORTED_FEATURES : BOOLEAN,
     attrs : [metadata : AttrPairs(AttrValue("metadata")),
              send_at : AttrPairs(AttrValue("send_at")),
              tags : AttrPairs(AttrValue("tags")),
              track_clicks : AttrPairs(AttrValue("track_clicks")),
              track_opens : AttrPairs(AttrValue("track_opens"))]]

\* the calls of last made: up to three arguments
PyScalars == {PyScalar(1), PyScalar(2)}
LastOps == [kind : {"last"}, args : SeqsUpTo({UNSET, PyNone} \cup PyScalars, 3)]

\* base.py lines 150-165, one attribute: merged for metadata and tags, the
\* last value given for the others
resolve(name, attr) ==
    IF name \in MergedAttrs THEN get_anymail_merged_attr(attr) ELSE get_anymail_attr(attr)

\* one attribute with the values the settings and the message give for it
ResolveOps ==
    [kind : {"resolve"}, name : MergedAttrs, default : PyValues, message : PyValues]
    \cup [kind : {"resolve"}, name : Range(AnymailAttrs) \ MergedAttrs,
          default : {UNSET, PyNone} \cup PyScalars,
          message : {UNSET, PyNone} \cup PyScalars]

\* ---------------------------------- combine and the objects it is given
\* utils.py lines 39-42, `try: result = value.copy()` and `except
\* AttributeError: result = value`, for the argument object k: the result
\* is a new object (ref 0) or the argument itself (ref k). A dict has copy;
\* a list has it on Python 3 only (list_has_copy)
try_copy_Alias(value, k, list_has_copy) == [ref |-> k, new |-> UNSET]
try_copy(value, k, list_has_copy) ==
    IF value.t = "dict" \/ list_has_copy THEN [ref |-> 0, new |-> value]
    ELSE [ref |-> k, new |-> UNSET]

\* the value `result` is bound to: a new object or one of the arguments
Deref(r) == IF r.ref = 0 THEN r.new ELSE r.objs[r.ref]

\* utils.py lines 34-47 for the argument object k, with r.objs the argument
\* objects as they are now: result.update(value) changes the object result
\* is bound to
combine_objects_step(r, k, list_has_copy) ==
    LET value == r.objs[k]
        result == Deref(r)
    IN IF result.t = "TypeError" THEN r
       ELSE IF value.t = "None" THEN [r EXCEPT !.ref = 0, !.new = UNSET]
       ELSE IF value.t = "UNSET" THEN r
       ELSE IF result.t = "UNSET"
            THEN LET c == try_copy(value, k, list_has_copy) IN
                 [r EXCEPT !.ref = c.ref, !.new = c.new]
       ELSE IF result.t = "dict"
            THEN IF value.t = "dict"
                 THEN IF r.ref = 0
                      THEN [r EXCEPT !.new = PyDict(DictUpdate(result.d, value.d))]
                      ELSE [r EXCEPT !.objs[r.ref] = PyDict(DictUpdate(result.d, value.d))]
                 ELSE IF value.l = <<>> THEN r
                 ELSE [r EXCEPT !.ref = 0, !.new = PyTypeError]
       ELSE IF value.t = "list"
            THEN [r EXCEPT !.ref = 0, !.new = PyList(result.l \o value.l)]
       ELSE [r EXCEPT !.ref = 0, !.new = PyTypeError]

RECURSIVE combine_objects_loop(_, _, _)
combine_objects_loop(r, k, list_has_copy) ==
    IF k > Len(r.objs) THEN r
    ELSE combine_objects_loop(combine_objects_step(r, k, list_has_copy), k + 1, list_has_copy)

\* utils.py combine(*objs): the value returned and the argument objects
\* after the call
combine_objects(objs, list_has_copy) ==
    LET r == combine_objects_loop([objs |-> objs, ref |-> 0, new |-> UNSET], 1, list_has_copy)
    IN [value |-> Deref(r), objs |-> r.objs]

\* base.py lines 151 and 157 with get_anymail_merged_attr: metadata and
\* tags of one message are resolved against send_defaults; what the setters
\* are given, and send_defaults and the message afterwards
resolve_merged(send_defaults, message, list_has_copy) ==
    LET metadata == combine_objects(<<send_defaults.metadata, message.metadata>>, list_has_copy)
        tags == combine_objects(<<send_defaults.tags, message.tags>>, list_has_copy)
    IN [params |-> [metadata |-> metadata.value, tags |-> tags.value],
        send_defaults |-> [metadata |-> metadata.objs[1], tags |-> tags.objs[1]],
        message |-> [metadata |-> metadata.objs[2], tags |-> tags.objs[2]]]

\* ANYMAIL_SEND_DEFAULTS and a message with metadata and tags, sent before
\* a message that has neither
DefaultMetadatas == {UNSET} \cup {PyDict(d) : d \in [DictKeys -> {0, 1}]}
MessageMetadatas == {UNSET, PyNone} \cup {PyDict(d) : d \in [DictKeys -> {0, 2}]}
DefaultTags == {UNSET, PyList(<<>>), PyList(<<1>>)}
MessageTags == {UNSET, PyNone, PyList(<<2>>)}
PlainMessage == [metadata |-> UNSET, tags |-> UNSET]
SendsOps ==
    [kind : {"sends"}, list_has_copy : BOOLEAN,
     send_defaults : [metadata : DefaultMetadatas, tags : DefaultTags],
     message : [metadata : MessageMetadatas, tags : MessageTags]]

\* open() and close() called on a backend without a session or with the
\* session 1; `fails`: requests.Session(), or the session's close(), raises
\* RequestException
SessionOps ==
    [kind : {"open", "close"}, session : {NoSession, 1}, fails : BOOLEAN,
     fail_silently : BOOLEAN]

\* the session open() creates when it creates one
NewSession == 2

\* ------------------------------------- webhooks/mailjet.py (pure)
\* event_types and reject_reasons, lines 20-52
event_types ==
    [sent |-> "delivered", open |-> "opened", click |-> "clicked", bounce |-> "bounced",
     blocked |-> "rejected", spam |-> "complained", unsub |-> "unsubscribed"]
reject_reasons ==
    [user_unknown |-> "bounced", mailbox_inactive |-> "bounced",
     quota_exceeded |-> "bounced", blacklisted |-> "blocked", spam_reporter |-> "spam",
     invalid_domain |-> "bounced", no_mail_host |-> "bounced",
     relay_access_denied |-> "bounced", greylisted |-> "other", typofix |-> "invalid",
     sender_blocked |-> "blocked", content_blocked |-> "blocked",
     policy_issue |-> "blocked", preblocked |-> "blocked",
     duplicate_in_campaign |-> "other"]

\* line 55, self.event_types.get(name, EventType.UNKNOWN), and line 72,
\* self.reject_reasons.get(error, RejectReason.OTHER)
event_types_get(name) ==
    IF name \in DOMAIN event_types THEN event_types[name] ELSE "unknown"
reject_reasons_get_Bounced(error) ==
    IF error \in DOMAIN reject_reasons THEN reject_reasons[error] ELSE "bounced"
reject_reasons_get(error) ==
    IF error \in DOMAIN reject_reasons THEN reject_reasons[error] ELSE "other"

\* esp_to_anymail_event, lines 54-74: event_type and reject_reason of one
\* record. A key of the record is the set of its values, empty when the
\* record has no such key; esp_event['event'] raises KeyError without one
esp_to_anymail_event(esp_event) ==
    IF esp_event.event = NotGiven
    THEN [exc |-> "KeyError", event_type |-> None, reject_reason |-> None]
    ELSE [exc |-> NoExc,
          event_type |->
              IF esp_event.error = {"greylisted"} /\ ~esp_event.hard_bounce
              THEN "deferred"
              ELSE event_types_get(CHOOSE name \in esp_event.event : TRUE),
          reject_reason |->
              IF esp_event.error = NotGiven THEN None
              ELSE reject_reasons_get(CHOOSE error \in esp_event.error : TRUE)]

\* the records Mailjet posts: any event name of the table or a new one, any
\* error of the table or a new one, or none
MailjetOps ==
    [kind : {"mailjet"},
     esp_event : [event : {NotGiven} \cup {{name} : name \in DOMAIN event_types \cup {"new_event"}},
                  error : {NotGiven} \cup {{e} : e \in DOMAIN reject_reasons \cup {"new_error"}},
                  hard_bounce : BOOLEAN]]

\* ------------------------------- signed webhooks: Mailgun and Mandrill
\* The views of these two webhooks are anymail/webhooks/mailgun.py and
\* mandrill.py; what follows is their specified behaviour: the request's
\* signature is verified, each raw record is mapped to an event, every event
\* is handed to the handlers, and the response is 200, or 400 when the
\* signature does not verify.
\* An HMAC, as the pair of its key and message: no two pairs collide
hmac_new(key, msg) == <<key, msg>>

\* the configured secret (MAILGUN_API_KEY, MANDRILL_WEBHOOK_KEY) and some
\* other key
WebhookKey == "TEST_KEY"
WebhookKeys == {WebhookKey, "wrong key"}

\* what the ESP signs: Mailgun the timestamp and token fields, Mandrill the
\* url and the posted events
SignedDatas == {"data1", "data2"}

\* raw event name -> normalized event type
webhook_event_types(esp) ==
    IF esp = "Mailgun"
    THEN [delivered |-> "delivered", dropped |-> "rejected", bounced |-> "bounced",
          opened |-> "opened"]
    ELSE [send |-> "sent", hard_bounce |-> "bounced", click |-> "clicked"]
webhook_event_type_FirstEntry(esp, name) == webhook_event_types(esp)[
    CHOOSE n \in DOMAIN webhook_event_types(esp) : TRUE]
webhook_event_type(esp, name) ==
    IF name \in DOMAIN webhook_event_types(esp) THEN webhook_event_types(esp)[name]
    ELSE "unknown"

\* the check of the signature: it is there and is the HMAC of the signed
\* data under the configured key
validate_request(request) ==
    request.signature = {hmac_new(WebhookKey, request.signed)}

\* one POST to the webhook: the status of the response and the events the
\* handlers are given
run_webhook(esp, request) ==
    IF ~validate_request(request) THEN [status_code |-> 400, events |-> <<>>]
    ELSE [status_code |-> 200,
          events |-> [k \in 1..Len(request.events) |->
                         [event_type |-> webhook_event_type(esp, request.events[k]),
                          esp_event |-> request.events[k]]]]

\* the POSTs: unsigned, or signed under either key for either data; Mailgun
\* posts one event, Mandrill one or more
WebhookSignatures ==
    {NotGiven} \cup {{hmac_new(k, d)} : k \in WebhookKeys, d \in SignedDatas}
MaxEvents == 2
WebhookOps ==
    [kind : {"webhook"}, esp : {"Mailgun"},
     request : [signed : SignedDatas, signature : WebhookSignatures,
                events : {<<n>> : n \in DOMAIN webhook_event_types("Mailgun") \cup {"new_event"}}]]
    \cup [kind : {"webhook"}, esp : {"Mandrill"},
          request : [signed : SignedDatas, signature : WebhookSignatures,
                     events : SeqsUpTo(DOMAIN webhook_event_types("Mandrill") \cup {"new_event"},
                                       MaxEvents) \ {<<>>}]]

\* -------------------------------------------------------- the operations
InitBuild ==
    /\ fail_silently = FALSE
    /\ ignore_recipient_status = FALSE
    /\ session = NoSession
    /\ sessions_made = 0
    /\ anymail_status = [m \in MsgIds |-> Absent]
    /\ pc = "idle"
    /\ email_messages = <<>>
    /\ i = 1
    /\ num_sent = 0
    /\ created_session = "False"
    /\ exc = NoExc
    /\ session_before = NoSession
    /\ closes = 0
    /\ log = <<>>
    /\ last = NoLast
    /\ job = NoJob
    /\ recipient_status = <<>>
    /\ parse_exc = NoExc
    /\ parse_pc = "idle"
    /\ \/ op \in PostOps
       \/ op \in CombineOps
       \/ op \in PostmarkOps
       \/ op \in MailgunOps
       \/ op \in EspExtraOps
       \/ op \in HtmlOps
       \/ op \in AttrOps
       \/ op \in LastOps
       \/ op \in ResolveOps
       \/ op \in SendsOps
       \/ op \in SessionOps
       \/ op \in MailjetOps
       \/ op \in WebhookOps
    /\ out = NoOut
    /\ threads = NoThreads

\* post_to_esp for one payload: the arguments of session.post and the
\* exception the answer's status code raises
PostToEsp ==
    /\ op.kind = "post"
    /\ ~out.done
    /\ out' = [done |-> TRUE,
               timeout |-> session_post_timeout(op.REQUESTS_TIMEOUT),
               exc |-> post_to_esp(op.status_code)]
    /\ UNCHANGED <<main, parsing, threads, op>>

\* one call of combine
Combine ==
    /\ op.kind = "combine"
    /\ ~out.done
    /\ out' = [done |-> TRUE, value |-> combine(op.args)]
    /\ UNCHANGED <<main, parsing, threads, op>>

\* Postmark: the payload of one message is built and serialized
SerializePostmark ==
    /\ op.kind = "postmark"
    /\ ~out.done
    /\ LET r == serialize_data(PostmarkPayload(op.message)) IN
          out' = [done |-> TRUE, exc |-> r.exc, api_endpoint |-> r.api_endpoint,
                  bodies |-> r.bodies]
    /\ UNCHANGED <<main, parsing, threads, op>>

\* Mailgun: recipient-variables of one payload are populated
PopulateMailgun ==
    /\ op.kind = "mailgun"
    /\ ~out.done
    /\ LET r == populate_recipient_variables(op.payload) IN
          out' = [done |-> TRUE, exc |-> r.exc, recipient_vars |-> r.recipient_vars]
    /\ UNCHANGED <<main, parsing, threads, op>>

\* esp_extra is applied to the data the other setters have written; the
\* backend's own server token is 1
SetEspExtra ==
    /\ op.kind = "esp_extra"
    /\ ~out.done
    /\ LET r == set_esp_extra(op.data, 1, op.extra) IN
          out' = [done |-> TRUE, data |-> r.data, server_token |-> r.server_token]
    /\ UNCHANGED <<main, parsing, threads, op>>

\* the bodies of one message are put into the payload of its ESP
SetBodies ==
    /\ op.kind = "html"
    /\ ~out.done
    /\ out' =
          IF op.esp = "Mandrill"
          THEN [done |-> TRUE,
                exc |-> build_message_payload([rcpts |-> 1, alternatives |-> op.alternatives]),
                html |-> mandrill_html(op.content_subtype, op.alternatives)]
          ELSE LET r == set_bodies(op.content_subtype, op.alternatives) IN
               [done |-> TRUE, exc |-> r.exc,
                html |-> IF r.exc # NoExc \/ ~r.has_html THEN "none"
                         ELSE IF op.content_subtype = "html" THEN "body"
                         ELSE "alternative"]
    /\ UNCHANGED <<main, parsing, threads, op>>

\* a message with recipients goes through build_message_payload and, if that
\* returns, post_to_esp
BuildAndPost ==
    /\ op.kind = "attrs"
    /\ ~out.done
    /\ LET r == build_and_post(op.backend, op.attrs, op.IGNORE_UNSUPPORTED_FEATURES) IN
          out' = [done |-> TRUE, exc |-> r.exc, message |-> r.message, posted |-> r.posted]
    /\ UNCHANGED <<main, parsing, threads, op>>

\* one call of last
Last ==
    /\ op.kind = "last"
    /\ ~out.done
    /\ out' = [done |-> TRUE, value |-> utils_last(op.args)]
    /\ UNCHANGED <<main, parsing, threads, op>>

\* one attribute is resolved; its setter is called unless the value is UNSET
Resolve ==
    /\ op.kind = "resolve"
    /\ ~out.done
    /\ LET value == resolve(op.name, [default |-> op.default, message |-> op.message]) IN
          out' = [done |-> TRUE, value |-> value, setter_called |-> value # UNSET]
    /\ UNCHANGED <<main, parsing, threads, op>>

\* the first send: the message's metadata and tags are merged into the
\* defaults
SendMerged ==
    /\ op.kind = "sends"
    /\ out = NoOut
    /\ LET r == resolve_merged(op.send_defaults, op.message, op.list_has_copy) IN
          out' = [done |-> FALSE, sends |-> 1, params |-> r.params,
                  send_defaults |-> r.send_defaults, message |-> r.message]
    /\ UNCHANGED <<main, parsing, threads, op>>

\* the later send, of a message without metadata and tags, against
\* send_defaults as the first send left them
SendPlain ==
    /\ op.kind = "sends"
    /\ out # NoOut
    /\ ~out.done
    /\ LET r == resolve_merged(out.send_defaults, PlainMessage, op.list_has_copy) IN
          out' = [done |-> TRUE, sends |-> 2, params |-> r.params,
                  send_defaults |-> r.send_defaults, message |-> out.message]
    /\ UNCHANGED <<main, parsing, threads, op>>

\* one call of open()
Open ==
    /\ op.kind = "open"
    /\ ~out.done
    /\ LET o == open(op.session, NewSession, op.fails, op.fail_silently) IN
          out' = [done |-> TRUE, session |-> o.session, rv |-> o.rv, exc |-> o.exc]
    /\ UNCHANGED <<main, parsing, threads, op>>

\* one call of close()
Close ==
    /\ op.kind = "close"
    /\ ~out.done
    /\ LET c == close(op.session, op.fails, op.fail_silently) IN
          out' = [done |-> TRUE, session |-> c.session, exc |-> c.exc]
    /\ UNCHANGED <<main, parsing, threads, op>>

\* one record of a Mailjet webhook call is parsed
ParseMailjetEvent ==
    /\ op.kind = "mailjet"
    /\ ~out.done
    /\ LET e == esp_to_anymail_event(op.esp_event) IN
          out' = [done |-> TRUE, exc |-> e.exc, event_type |-> e.event_type,
                  reject_reason |-> e.reject_reason]
    /\ UNCHANGED <<main, parsing, threads, op>>

\* one POST to a signed webhook is answered
PostWebhook ==
    /\ op.kind = "webhook"
    /\ ~out.done
    /\ LET r == run_webhook(op.esp, op.request) IN
          out' = [done |-> TRUE, status_code |-> r.status_code, events |-> r.events]
    /\ UNCHANGED <<main, parsing, threads, op>>

NextBuild ==
    \/ PostToEsp
    \/ Combine
    \/ SerializePostmark
    \/ PopulateMailgun
    \/ SetEspExtra
    \/ SetBodies
    \/ BuildAndPost
    \/ Last
    \/ Resolve
    \/ SendMerged
    \/ SendPlain
    \/ Open
    \/ Close
    \/ ParseMailjetEvent
    \/ PostWebhook

SpecBuild == InitBuild /\ [][NextBuild]_vars

\* ================================================================ claims
LastOut == log[Len(log)].out
SentCount == Cardinality({k \in 1..Len(log) : log[k].out = "sent"})
LoopOver == pc \in {"finally", "returned", "raised"}
OnlyAnymailErrors == \A k \in 1..Len(log) : log[k].out \notin OtherErrors

\* C1: with fail_silently, an AnymailError raised by one message's send is
\* swallowed: no exception leaves the loop, the message adds nothing to
\* num_sent, the messages are attempted in input order up to the last one, and
\* the call returns the number of sends that succeeded.
C1_FailSilentlySwallows ==
    fail_silently =>
        /\ \A k \in 1..Len(log) : log[k].id = email_messages[k]
        /\ num_sent = SentCount
        /\ (Len(log) >= 1 /\ OnlyAnymailErrors) =>
              /\ exc = NoExc
              /\ pc # "raised"
              /\ pc = "loop" => i = Len(log) + 1
              /\ LoopOver => Len(log) = Len(email_messages)

C1_Witness ==
    /\ fail_silently
    /\ pc = "returned"
    /\ Len(log) = 2
    /\ log[1].out \in AnymailErrors
    /\ log[2].out = "sent"
    /\ num_sent = 1

\* C2 as claimed: an error raised while sending one message never prevents
\* the remaining messages of the call from being attempted.
C2_ErrorNeverStopsTheRest ==
    (LoopOver /\ Len(log) >= 1 /\ LastOut \in AnymailErrors \cup OtherErrors)
        => Len(log) = Len(email_messages)

\* C2 amended: the remaining messages go unattempted only after an error that
\* propagates, that is an AnymailError with fail_silently off or an exception
\* that is no AnymailError; every message before it was attempted, and an
\* AnymailError under fail_silently stops nothing.
C2_OnlyPropagatingErrorStopsTheRest ==
    (LoopOver /\ Len(log) >= 1 /\ Len(log) < Len(email_messages)) =>
        /\ LastOut \in AnymailErrors \cup OtherErrors
        /\ ~fail_silently \/ LastOut \in OtherErrors
        /\ exc # NoExc
        /\ \A k \in 1..(Len(log) - 1) :
              log[k].out \in {"sent", "skipped"} \cup (IF fail_silently THEN AnymailErrors ELSE {})

C2_Witness ==
    /\ ~fail_silently
    /\ pc = "raised"
    /\ Len(email_messages) = 2
    /\ Len(log) = 1
    /\ LastOut \in AnymailErrors

\* C3: an exception that is no AnymailError, raised during one message's
\* send, leaves send_messages whatever fail_silently is: the loop ends there
\* and the call raises.
C3_OtherErrorsPropagate ==
    (Len(log) >= 1 /\ LastOut \in OtherErrors) =>
        /\ pc \in {"finally", "raised"}
        /\ exc \in OtherErrors
        /\ pc = "finally" => exc = LastOut

C3_Witness ==
    /\ fail_silently
    /\ pc = "raised"
    /\ session_before # NoSession
    /\ Len(log) = 1
    /\ LastOut = "RequestException"
    /\ exc = "RequestException"

\* C4: a message without recipients adds nothing to num_sent, no payload is
\* built for it and nothing is posted to the ESP.
C4_NoRecipientsNoCall ==
    (last.id # 0 /\ last.shape.rcpts = 0) =>
        /\ ~last.built
        /\ ~last.posted
        /\ ~last.sent
        /\ LastOut # "sent"
        /\ num_sent = Cardinality({k \in 1..(Len(log) - 1) : log[k].out = "sent"})

C4_Witness ==
    /\ pc = "returned"
    /\ Len(log) = 2
    /\ log[1].out = "sent"
    /\ last.shape.rcpts = 0
    /\ LastOut = "skipped"
    /\ num_sent = 1

\* C5: send_messages calls close() exactly when its own open() returned True:
\* a session the caller had opened is the backend's session, untouched, when
\* the call ends, and a session the call created is gone when it returns or
\* raises; while the loop runs the messages share one session.
C5_CloseIffOpened ==
    /\ closes <= 1
    /\ pc \in {"returned", "raised"} =>
          /\ closes = 1 <=> (email_messages # <<>> /\ created_session = "True")
          /\ session_before # NoSession => (session = session_before /\ closes = 0)
          /\ (email_messages # <<>> /\ created_session = "True") => session = NoSession
    /\ pc \in {"loop", "finally"} =>
          /\ closes = 0
          /\ created_session = "True" =>
                (session_before = NoSession /\ session # NoSession)
          /\ created_session = "False" => session = session_before

C5_Witness ==
    /\ pc = "raised"
    /\ created_session = "True"
    /\ closes = 1
    /\ session = NoSession
    /\ Len(log) = 1
    /\ Len(email_messages) = 2

\* ------------------------------------------------ claims on one send
\* the latest _send reached validate_response with a list of result items
Validated ==
    /\ last.id # 0
    /\ last.posted
    /\ last.answer.net = "ok"
    /\ last.answer.status_code = 200
    /\ last.answer.body.kind = "list"
Items == last.answer.body.items
Refused(st) == st \in {"rejected", "invalid"}
AllRefused(items) == \A k \in 1..Len(items) : Refused(items[k])
Mixed(items) ==
    /\ \E k \in 1..Len(items) : Refused(items[k])
    /\ \E k \in 1..Len(items) : ~Refused(items[k])

\* C6 as claimed: for a message with recipients, any 2xx answer with a
\* well-formed success body counts as 1 sent and a status is attached.
C6_Any2xxCountsAsSent ==
    ( /\ last.id # 0
      /\ last.shape.rcpts > 0
      /\ last.posted
      /\ last.answer.net = "ok"
      /\ last.answer.status_code \in 200..299
      /\ last.answer.body.kind = "list"
      /\ Len(last.answer.body.items) >= 1
      /\ ~AllRefused(last.answer.body.items) )
    => /\ last.sent
       /\ LastOut = "sent"
       /\ anymail_status[last.id] \notin {None, Absent}

\* C7 as claimed: after a successful send the keys of the per-recipient status
\* map are exactly the message's resolved recipients (to, cc and bcc).
SendSucceeded ==
    /\ parse_pc = "done"
    /\ parse_exc = NoExc
    /\ \E a \in DOMAIN recipient_status : recipient_status[a].status \in {"sent", "queued"}
C7_KeysAreResolvedRecipients ==
    SendSucceeded => DOMAIN recipient_status = Resolved(job.msg)

\* C8: for an answer with a result item per recipient, RecipientsRefused is
\* raised exactly when every item is rejected or invalid and
\* ignore_recipient_status is off; an answer mixing accepted and refused
\* recipients raises nothing and the send counts as 1. (An answer without
\* any result item is C30's case.)
C8_RefusedIffAllRefused ==
    /\ last.exc = "AnymailRecipientsRefused" => Validated
    /\ (Validated /\ Items # <<>>) =>
          /\ (last.exc = "AnymailRecipientsRefused")
                <=> (AllRefused(Items) /\ ~ignore_recipient_status)
          /\ Mixed(Items) =>
                (last.exc = NoExc /\ last.sent /\ LastOut = "sent" /\ num_sent = 1)

C8_Witness ==
    /\ Validated
    /\ ~ignore_recipient_status
    /\ Items = <<"rejected", "sent">>
    /\ pc = "returned"
    /\ num_sent = 1
    /\ anymail_status[1] = "multi"

\* C9 as claimed: when RecipientsRefused is raised for a message (or swallowed
\* under fail_silently), the status attached to the message records the
\* refused recipients.
C9_RefusedStatusAttached ==
    last.exc = "AnymailRecipientsRefused" =>
        anymail_status[last.id] \notin {None, Absent}

Did(k) == op.kind = k /\ out.done

\* C11 as claimed: every POST to the ESP carries a finite timeout, 30 seconds
\* by default or the REQUESTS_TIMEOUT setting when it is configured.
C11_PostHasTimeout ==
    Did("post") =>
        out.timeout = (IF op.REQUESTS_TIMEOUT = NotGiven THEN {30}
                       ELSE op.REQUESTS_TIMEOUT)

\* what a request body carries as template variables
TemplateModelOf(body) == IF body.has_TemplateModel THEN body.TemplateModel ELSE EmptyDict

\* merge_global_data overlaid with the merge_data entry of `to`: the entry's
\* keys win, and without an entry the global values stand alone
Overlaid(message, to) ==
    [k \in DictKeys |->
        IF message.merge_data.m[to].has /\ message.merge_data.m[to].d[k] # 0
        THEN message.merge_data.m[to].d[k]
        ELSE IF message.merge_global_data.present THEN message.merge_global_data.d[k]
        ELSE 0]

MergeSend(n) ==
    /\ Did("postmark")
    /\ op.message.merge_data.present
    /\ n

\* C12: with merge_data present (an empty map included) and two or more `to`
\* recipients, Postmark's batch has one body per `to` recipient, in `to`
\* order, each addressed to that recipient alone and carrying
\* merge_global_data overlaid with the recipient's merge_data entry; nothing
\* is raised, with or without an entry.
C12_BatchOneBodyPerTo ==
    MergeSend(Len(op.message.to) >= 2) =>
        /\ out.exc = NoExc
        /\ out.api_endpoint \in {"email/batchWithTemplates", "email/batch"}
        /\ Len(out.bodies) = Len(op.message.to)
        /\ \A k \in 1..Len(out.bodies) :
              /\ out.bodies[k].To = <<op.message.to[k]>>
              /\ TemplateModelOf(out.bodies[k]) = Overlaid(op.message, op.message.to[k])

C12_Witness ==
    /\ MergeSend(op.message.to = <<"b@x.com", "a@x.com">>)
    /\ op.message.merge_global_data.present
    /\ op.message.merge_global_data.d = [k \in DictKeys |-> 1]
    /\ merge_data_keys(op.message.merge_data) = {"a@x.com"}
    /\ Len(out.bodies) = 2
    /\ out.bodies[1].TemplateModel = [k \in DictKeys |-> 1]
    /\ out.bodies[2].TemplateModel = [k \in DictKeys |-> IF k = "k1" THEN 2 ELSE 1]

\* C13 as claimed: with merge_data present and exactly one `to` recipient,
\* the body sent carries the recipient's merge_data entry merged over
\* merge_global_data.
C13_SingleToCarriesEntry ==
    MergeSend(Len(op.message.to) = 1) =>
        /\ Len(out.bodies) = 1
        /\ TemplateModelOf(out.bodies[1]) = Overlaid(op.message, op.message.to[1])

\* C14 as claimed: in Postmark's fan-out, a merge_data key that is no `to`
\* recipient of the message makes the payload construction raise.
C14_UnknownMergeKeyRaises ==
    MergeSend(~(merge_data_keys(op.message.merge_data) \subseteq Range(op.message.to)))
        => out.exc # NoExc

\* C15: Mailgun's recipient-variables has entries for `to` addresses only: a
\* merge_data (or merge_metadata) key of an address that is no `to` recipient
\* is left out and nothing is raised, while a `to` recipient with a
\* merge_data entry has its variables there.
C15_OnlyToRecipients ==
    Did("mailgun") =>
        /\ out.exc = NoExc
        /\ \A a \in Addrs :
              /\ out.recipient_vars[a].has => a \in Range(op.payload.to_emails)
              /\ (a \in Range(op.payload.to_emails) /\ op.payload.merge_data[a].has)
                    => /\ out.recipient_vars[a].has
                       /\ out.recipient_vars[a].data.vars["k1"] = 2

C15_Witness ==
    /\ Did("mailgun")
    /\ op.payload.to_emails = <<"a@x.com", "b@x.com">>
    /\ op.payload.merge_data["C@x.com"].has
    /\ op.payload.merge_data["a@x.com"].has
    /\ ~op.payload.merge_data["b@x.com"].has
    /\ op.payload.merge_global_data = EmptyDict
    /\ out.recipient_vars["a@x.com"].has
    /\ ~out.recipient_vars["C@x.com"].has

\* C16 as claimed: esp_extra is deep-merged into the payload: a key it gives
\* overrides the value set earlier, and inside a nested map the sibling keys
\* esp_extra does not name are kept.
C16_EspExtraDeepMerged ==
    Did("esp_extra") =>
        /\ op.extra.Tag # 0 => out.data.Tag = op.extra.Tag
        /\ op.extra.Tag = 0 => out.data.Tag = op.data.Tag
        /\ \A k \in DictKeys :
              out.data.TemplateModel[k] =
                 (IF op.extra.TemplateModel[k] # 0 THEN op.extra.TemplateModel[k]
                  ELSE op.data.TemplateModel[k])

\* how many times the message's parts would set the HTML body
HtmlParts(t) ==
    (IF t.content_subtype = "html" THEN 1 ELSE 0)
    + Cardinality({k \in 1..Len(t.alternatives) : t.alternatives[k] = "text/html"})

\* C17 as claimed: a message that would set the HTML body twice (an HTML body
\* plus a text/html alternative, or two text/html alternatives) fails with
\* UnsupportedFeature on every backend.
C17_SecondHtmlBodyRaises ==
    (Did("html") /\ HtmlParts(op) >= 2) => out.exc = "AnymailUnsupportedFeature"

\* the attribute resolves to a value: the message gives one, or gives nothing
\* while the settings give a default
Resolves(attr) ==
    \/ attr.message.t \notin {"UNSET", "None"}
    \/ attr.message.t = "UNSET" /\ attr.default.t \notin {"UNSET", "None"}

\* the attributes of the message the backend cannot express, in setter order
Unsupported ==
    {k \in 1..Len(AnymailAttrs) :
        Resolves(op.attrs[AnymailAttrs[k]]) /\ AnymailAttrs[k] \notin op.backend.overrides}
FirstUnsupported ==
    AnymailAttrs[CHOOSE k \in Unsupported : \A j \in Unsupported : k <= j]

\* C18: when metadata, send_at, tags, track_clicks or track_opens resolves to
\* a value and the backend does not override its setter, building the payload
\* raises UnsupportedFeature "<ESP name> does not support <attribute>" (for
\* the first such attribute) and nothing is posted; otherwise nothing raises.
C18_UnsupportedAttributeRaises ==
    (Did("attrs") /\ ~op.IGNORE_UNSUPPORTED_FEATURES) =>
        IF Unsupported # {}
        THEN /\ out.exc = "AnymailUnsupportedFeature"
             /\ out.message = <<op.backend.esp_name, "does not support", FirstUnsupported>>
             /\ ~out.posted
        ELSE out.exc = NoExc /\ out.posted

C18_Witness ==
    /\ Did("attrs")
    /\ ~op.IGNORE_UNSUPPORTED_FEATURES
    /\ op.backend.esp_name = "Partial"
    /\ op.attrs.metadata.message = UNSET
    /\ op.attrs.metadata.default = UNSET
    /\ op.attrs.send_at.default = PyScalar(1)
    /\ op.attrs.send_at.message = UNSET
    /\ op.attrs.tags.message = PyList(<<1>>)
    /\ out.message = <<"Partial", "does not support", "send_at">>
    /\ ~out.posted

\* C19 as claimed: with 'ignore unsupported features' configured, a feature
\* the ESP cannot express is dropped: nothing is raised and the message is
\* still sent.
C19_IgnoreUnsupportedDrops ==
    (Did("attrs") /\ op.IGNORE_UNSUPPORTED_FEATURES /\ Unsupported # {}) =>
        out.exc = NoExc /\ out.posted

\* C20: combine(default, None, message) is combine(message), that is message
\* itself, or UNSET when message is None: nothing of default is left.
C20_NoneResets ==
    (Did("combine") /\ Len(op.args) = 3 /\ op.args[2] = PyNone) =>
        /\ out.value = combine(<<op.args[3]>>)
        /\ out.value = (IF op.args[3] = PyNone THEN UNSET ELSE op.args[3])

C20_Witness ==
    /\ Did("combine")
    /\ Len(op.args) = 3
    /\ op.args[1] = PyDict([k \in DictKeys |-> 1])
    /\ op.args[2] = PyNone
    /\ op.args[3] = PyDict([k \in DictKeys |-> IF k = "k2" THEN 2 ELSE 0])
    /\ out.value = op.args[3]

\* an override-type attribute is resolved and the message gives None for it
ExplicitNull ==
    Did("resolve") /\ op.name \notin MergedAttrs /\ op.message = PyNone

\* C21 as claimed: for send_at, track_clicks and track_opens, a value the
\* message sets to None resolves as that None, which is not UNSET and is
\* not the default of the settings.
C21_ExplicitNullKept ==
    ExplicitNull => out.value = PyNone

\* C21 amended: for send_at, track_clicks and track_opens, a value the
\* message sets to None suppresses the default of the settings and the
\* attribute resolves as UNSET: the setter is not called.
C21_ExplicitNullUnsets ==
    ExplicitNull => out.value = UNSET /\ ~out.setter_called

C21_Witness ==
    /\ Did("resolve")
    /\ op.name = "track_clicks"
    /\ op.default = PyScalar(1)
    /\ op.message = PyNone
    /\ out.value = UNSET

\* C22: for metadata and tags the resolved value is the default combined
\* with the message value: of two dicts, every key of the message with the
\* message's value and every other key of the default with the default's;
\* of two lists, the default's items followed by the message's items.
C22_MergedWithDefaults ==
    (Did("resolve") /\ op.name \in MergedAttrs) =>
        /\ (op.default.t = "dict" /\ op.message.t = "dict") =>
               /\ out.value.t = "dict"
               /\ \A k \in DictKeys :
                     out.value.d[k] = (IF op.message.d[k] # 0 THEN op.message.d[k]
                                       ELSE op.default.d[k])
        /\ (op.default.t = "list" /\ op.message.t = "list") =>
               /\ out.value.t = "list"
               /\ Len(out.value.l) = Len(op.default.l) + Len(op.message.l)
               /\ SubSeq(out.value.l, 1, Len(op.default.l)) = op.default.l
               /\ SubSeq(out.value.l, Len(op.default.l) + 1, Len(out.value.l)) = op.message.l

C22_Witness ==
    /\ Did("resolve")
    /\ op.name = "metadata"
    /\ op.default = PyDict([k \in DictKeys |-> 1])
    /\ op.message = PyDict([k \in DictKeys |-> IF k = "k2" THEN 2 ELSE 0])
    /\ out.value = PyDict([k \in DictKeys |-> IF k = "k2" THEN 2 ELSE 1])

\* no argument of the call is a value: each is UNSET
AllAbsent == \A k \in 1..Len(op.args) : op.args[k] = UNSET

\* C23: last(a, b, UNSET) is b whenever b is neither UNSET nor None, and
\* last and combine called with no argument, or with UNSET arguments only,
\* return UNSET and do not raise.
C23_LastAndEmpty ==
    /\ (Did("last") /\ Len(op.args) = 3 /\ op.args[3] = UNSET
           /\ op.args[2] \notin {UNSET, PyNone}) => out.value = op.args[2]
    /\ ((Did("last") \/ Did("combine")) /\ AllAbsent) => out.value = UNSET

C23_Witness ==
    /\ Did("last")
    /\ op.args = <<PyScalar(1), PyScalar(2), UNSET>>
    /\ out.value = PyScalar(2)

\* C24: resolving the attributes never changes send_defaults or the
\* message's own values: after a send that merged the message's metadata
\* and tags into the defaults, both are as they were, and a later send of a
\* message without metadata and tags is given the original defaults.
C24_DefaultsNotMutated ==
    (op.kind = "sends" /\ out # NoOut) =>
        /\ out.send_defaults = op.send_defaults
        /\ out.message = op.message
        /\ out.done => out.params = op.send_defaults

C24_Witness ==
    /\ Did("sends")
    /\ op.send_defaults.metadata = PyDict([k \in DictKeys |-> 1])
    /\ op.send_defaults.tags = PyList(<<1>>)
    /\ op.message.metadata = PyDict([k \in DictKeys |-> IF k = "k2" THEN 2 ELSE 0])
    /\ op.message.tags = PyList(<<2>>)
    /\ out.params = op.send_defaults

\* C25: open() returns True only when that call created the session; called
\* while a session exists it returns False and keeps that session; close()
\* always leaves the backend without a session, and on a backend without a
\* session it does nothing (it does not raise).
C25_OpenCloseSession ==
    /\ Did("open") =>
          /\ out.rv = "True" => op.session = NoSession /\ out.session = NewSession
          /\ op.session # NoSession =>
                out.rv = "False" /\ out.session = op.session /\ out.exc = NoExc
    /\ Did("close") =>
          /\ out.session = NoSession
          /\ op.session = NoSession => out.exc = NoExc

C25_Witness ==
    /\ Did("open")
    /\ op.session = 1
    /\ op.fails
    /\ out.rv = "False"
    /\ out.session = 1

\* a Mailjet record is parsed whose event name, or error string, is not in
\* the table
NewEventName ==
    Did("mailjet") /\ op.esp_event.event # NotGiven
        /\ op.esp_event.event \cap DOMAIN event_types = {}
NewErrorString ==
    Did("mailjet") /\ op.esp_event.event # NotGiven /\ op.esp_event.error # NotGiven
        /\ op.esp_event.error \cap DOMAIN reject_reasons = {}

\* C27 as claimed: parsing a Mailjet record does not fail on a name it does
\* not know: an event name that is not in the event table gives event_type
\* unknown, an error string that is not in the reject-reason table gives
\* reject_reason other.
C27_UnrecognisedNamesDefault ==
    /\ NewEventName => out.exc = NoExc /\ out.event_type = "unknown"
    /\ NewErrorString => out.exc = NoExc /\ out.reject_reason = "other"

\* C27 amended: parsing a Mailjet record does not fail on a name it does not
\* know: an event name that is not in the event table gives event_type
\* unknown, except that a record whose error is greylisted and which is not
\* a hard bounce gives deferred whatever its event name; an error string
\* that is not in the reject-reason table gives reject_reason other.
C27_UnrecognisedNamesDefaultOrDeferred ==
    /\ NewEventName =>
          /\ out.exc = NoExc
          /\ out.event_type =
                (IF op.esp_event.error = {"greylisted"} /\ ~op.esp_event.hard_bounce
                 THEN "deferred" ELSE "unknown")
    /\ NewErrorString => out.exc = NoExc /\ out.reject_reason = "other"

C27_Witness ==
    /\ Did("mailjet")
    /\ op.esp_event.event = {"new_event"}
    /\ op.esp_event.error = {"new_error"}
    /\ out.event_type = "unknown"
    /\ out.reject_reason = "other"

\* the request carries the signature the configured secret gives its data
CorrectlySigned ==
    \E s \in op.request.signature : s[1] = WebhookKey /\ s[2] = op.request.signed

C26_WitnessSigned ==
    /\ Did("webhook")
    /\ op.esp = "Mandrill"
    /\ CorrectlySigned
    /\ op.request.events = <<"hard_bounce", "click">>
    /\ out.status_code = 200
    /\ out.events[1].event_type = "bounced"

\* C28 as claimed: under fail_silently, when open() could not create the
\* session and swallowed the failure, send_messages does not raise: nothing
\* is sent on the missing session and every message counts as 0 sent.
C28_NoSessionNoRaise ==
    (fail_silently /\ created_session = None /\ pc # "idle") =>
        /\ exc = NoExc
        /\ pc # "raised"
        /\ num_sent = 0
        /\ \A k \in 1..Len(log) : log[k].out \notin OtherErrors

\* C30 as claimed: Mandrill's validate_response raises RecipientsRefused
\* only for an answer with at least one result item; an answer with an
\* empty result list does not raise it.
C30_EmptyResultNotRefused ==
    last.exc = "AnymailRecipientsRefused" => Validated /\ Items # <<>>

\* a thread is in the loop of send_messages with messages left to send
StillSending(t) == threads[t].pc = "loop" /\ threads[t].left > 0

\* C29 as claimed: when two send_messages calls run concurrently on the same
\* backend, no call closes or clears the shared session while the other call
\* still has messages left to send.
C29_SessionKeptWhileSending ==
    [][(session # NoSession /\ session' = NoSession)
          => \A t \in Threads : ~StillSending(t)]_vars

====
